---- MODULE Spec2Model ----
(***************************************************************************)
(* HeatGuard (src/app.py): heat index, risk classification, the forecast   *)
(* row loop, the peak, the safe-window scan and the guidance rules.        *)
(*                                                                         *)
(* Heat-index values are fixed-point integers in units of 1/Scale degF     *)
(* (1e-4 degF).  Temperatures, humidities and UV indices are integers.     *)
(***************************************************************************)
EXTENDS Integers, Sequences, FiniteSets, TLC

\* ------------------------------------------------------------------ bounds
\* Longest hourly forecast the model enumerates (the code keeps up to 24).
MaxRows == 4

\* Temperatures 78..MaxTemp (degF) are given to heat_index_f on its own.
MaxTemp == 114

\* Durations -40..MaxDuration (minutes) are given to hydration_schedule on its own.
MaxDuration == 100

\* Heat indices of 85..MaxHI degF, each with its two neighbours one unit
\* (1/Scale degF) away, are given to risk_from_hi on its own.
MaxHI == 130

\* ------------------------------------------------------------ fixed point
Scale == 10^4

Abs(x) == IF x < 0 THEN -x ELSE x

Max2(a, b) == IF a >= b THEN a ELSE b

Min2(a, b) == IF a <= b THEN a ELSE b

\* floor(c * m / Scale) for c >= 0, m >= 0, without leaving 32 bits.
MulMag(c, m) ==
    LET ch == c \div Scale
        cl == c % Scale
        mh == m \div Scale
        ml == m % Scale
    IN  ch * m + cl * mh + (cl * ml) \div Scale

\* A coefficient c given in units of 1e-8 times an integer monomial m >= 0,
\* in units of 1/Scale, truncated toward zero.
MulCoef(c, m) == IF c < 0 THEN -MulMag(-c, m) ELSE MulMag(c, m)

RECURSIVE IsqrtIter(_, _, _)
IsqrtIter(n, lo, hi) ==
    IF lo >= hi THEN lo
    ELSE LET mid == (lo + hi + 1) \div 2
         IN  IF mid * mid <= n THEN IsqrtIter(n, mid, hi)
             ELSE IsqrtIter(n, lo, mid - 1)

\* floor(sqrt(n)) for 0 <= n < 2^31.
Isqrt(n) == IsqrtIter(n, 0, 46340)

\* math.sqrt(num/den) in units of 1/Scale (num >= 0, den > 0).
SqrtFrac(num, den) == Isqrt((num * Scale * Scale) \div den)

\* --------------------------------------------------------- heat_index_f
\* Rothfusz coefficients; c1 in units of 1e-4, c2..c9 in units of 1e-8.
c1 == -423790
c2 == 204901523
c3 == 1014333127
c4 == -22475541
c5 == -683783
c6 == -5481717
c7 == 122874
c8 == 85282
c9 == -199

\* The base polynomial, before the adjustments.
Rothfusz(T_f, RH) ==
    c1 + MulCoef(c2, T_f) + MulCoef(c3, RH) + MulCoef(c4, T_f * RH)
       + MulCoef(c5, T_f * T_f) + MulCoef(c6, RH * RH)
       + MulCoef(c7, T_f * T_f * RH) + MulCoef(c8, T_f * RH * RH)
       + MulCoef(c9, T_f * T_f * RH * RH)

\* What math.sqrt is applied to in the low-humidity branch (times 17).
LowRadicand(T_f) == 17 - Abs(T_f - 95)

\* ((13 - RH)/4) * math.sqrt((17 - abs(T_f - 95))/17)
LowAdj(T_f, RH) == ((13 - RH) * SqrtFrac(LowRadicand(T_f), 17)) \div 4

\* ((RH - 85)/10) * ((87 - T_f)/5)
HighAdj(T_f, RH) == ((RH - 85) * (87 - T_f) * Scale) \div 50

LowSignFlipped(HI, adj) == HI + adj

\* HI -= adj
LowApply(HI, adj) == HI - adj

\* The evaluation of heat_index_f: the value returned and the branch taken.
HeatIndexEval(T_f, RH) ==
    LET HI == Rothfusz(T_f, RH)
    IN  IF RH < 13 /\ 80 <= T_f /\ T_f <= 112
        THEN [HI |-> LowApply(HI, LowAdj(T_f, RH)), low |-> TRUE, high |-> FALSE]
        ELSE IF RH > 85 /\ 80 <= T_f /\ T_f <= 87
             THEN [HI |-> HI + HighAdj(T_f, RH), low |-> FALSE, high |-> TRUE]
             ELSE [HI |-> HI, low |-> FALSE, high |-> FALSE]

heat_index_f(T_f, RH) == HeatIndexEval(T_f, RH).HI

\* ---------------------------------------------------------- risk_from_hi
RiskNoBoundary(hi_f) ==
    IF hi_f > 125 * Scale THEN <<"Extreme", "red">>
    ELSE IF hi_f > 104 * Scale THEN <<"High", "orange">>
    ELSE IF hi_f > 90 * Scale THEN <<"Moderate", "yellow">>
    ELSE <<"Low", "green">>

\* Returns (category, emoji); the emoji is named by its colour.
risk_from_hi(hi_f) ==
    IF hi_f >= 125 * Scale THEN <<"Extreme", "red">>
    ELSE IF hi_f >= 104 * Scale THEN <<"High", "orange">>
    ELSE IF hi_f >= 90 * Scale THEN <<"Moderate", "yellow">>
    ELSE <<"Low", "green">>

\* Low < Moderate < High < Extreme
Rank(risk) ==
    CASE risk = "Low" -> 0
      [] risk = "Moderate" -> 1
      [] risk = "High" -> 2
      [] risk = "Extreme" -> 3

\* ------------------------------------------------- adjust_rules_for_risk
\* The first key is "Student athlete (13-18)" in the source.
Roles == {"Student athlete", "Construction", "Delivery / courier", "Elderly outdoors"}

ROLE_RULES ==
    [r \in Roles |->
        CASE r = "Student athlete" ->
                [work |-> 45, rest |-> 15, ml_per_20 |-> 250,
                 note |-> "Light-colored gear; buddy checks."]
          [] r = "Construction" ->
                [work |-> 40, rest |-> 20, ml_per_20 |-> 300,
                 note |-> "Use shade canopies; rotate tasks."]
          [] r = "Delivery / courier" ->
                [work |-> 50, rest |-> 10, ml_per_20 |-> 250,
                 note |-> "Cold packs in bag; short stops in shade."]
          [] r = "Elderly outdoors" ->
                [work |-> 30, rest |-> 30, ml_per_20 |-> 200,
                 note |-> "Frequent sips; caregiver check."]]

AdjustExtremeAsHigh(role, peak_risk) ==
    LET base == ROLE_RULES[role]
    IN  IF peak_risk = "High"
        THEN [base EXCEPT !.work = base.work - 10, !.rest = base.rest + 10]
        ELSE IF peak_risk = "Extreme"
             THEN [base EXCEPT !.work = base.work - 10, !.rest = base.rest + 15]
             ELSE base

adjust_rules_for_risk(role, peak_risk) ==
    LET base == ROLE_RULES[role]
    IN  IF peak_risk = "High"
        THEN [base EXCEPT !.work = Max2(20, base.work - 10), !.rest = base.rest + 10]
        ELSE IF peak_risk = "Extreme"
             THEN [base EXCEPT !.work = Max2(15, base.work - 15), !.rest = base.rest + 15]
             ELSE base

\* ---------------------------------------------------- hydration_schedule
RECURSIVE HydrationLoop(_, _, _, _)
HydrationLoop(schedule, t, total_minutes, ml_per_20) ==
    IF t <= total_minutes
    THEN HydrationLoop(Append(schedule, <<t, ml_per_20>>), t + 20,
                       total_minutes, ml_per_20)
    ELSE schedule

HydrationOffByOne(total_minutes, ml_per_20) ==
    HydrationLoop(<<>>, 20, total_minutes - 1, ml_per_20)

hydration_schedule(total_minutes, ml_per_20) ==
    HydrationLoop(<<>>, 20, total_minutes, ml_per_20)

\* ------------------------------------------------------------- fmt_hour
\* strftime("%-I%p") of utcfromtimestamp(ts + tz): <<hour on the 12-hour clock, AM/PM>>.
fmt_hour(ts, tz_offset_seconds) ==
    LET hour24 == ((ts + tz_offset_seconds) \div 3600) % 24
    IN  <<IF hour24 % 12 = 0 THEN 12 ELSE hour24 % 12,
          IF hour24 < 12 THEN "AM" ELSE "PM">>

\* Python's round() of a value in units of 1/Scale: nearest integer, ties to even.
PyRound(x) ==
    LET q == x \div Scale
        r == x % Scale
    IN  IF 2 * r < Scale THEN q
        ELSE IF 2 * r > Scale THEN q + 1
        ELSE IF q % 2 = 0 THEN q ELSE q + 1

\* ------------------------------------------------------ forecast row loop
\* dict.get(k, d)
Get(h, k, d) == IF k \in DOMAIN h THEN h[k] ELSE d

\* `v or 0.0`
OrZero(v) == IF v = 0 THEN 0 ELSE v

\* hourly[:24]
HourLimit == 24

Slice(s) == SubSeq(s, 1, Min2(Len(s), HourLimit))

BumpedAboveEight(HI, UVI) == IF UVI > 8 THEN HI + 3 * Scale ELSE HI

\* if UVI >= 8: HI += 3.0
UvBump(HI, UVI) == IF UVI >= 8 THEN HI + 3 * Scale ELSE HI

\* One pass of the loop body: the row appended for hourly record h.
MakeRow(h, tz) ==
    LET T_f == h["temp"]
        RH  == Get(h, "humidity", 0)
        UVI == OrZero(Get(h, "uvi", 0))
        HI  == UvBump(heat_index_f(T_f, RH), UVI)
        re  == risk_from_hi(HI)
    IN  [ts |-> h["dt"], temp_f |-> T_f, rh |-> RH, uvi |-> UVI, hi_f |-> HI,
         risk |-> re[1], emoji |-> re[2], hour |-> fmt_hour(h["dt"], tz)]

\* ------------------------------------------------------------------ peak
LastMaxWins(row, best) == row.hi_f >= best.hi_f

SmallerWins(row, best) == row.hi_f < best.hi_f

\* max() replaces its candidate only by a strictly greater key.
Replaces(row, best) == row.hi_f > best.hi_f

RECURSIVE MaxScan(_, _, _)
MaxScan(rs, i, best) ==
    IF i > Len(rs) THEN best
    ELSE MaxScan(rs, i + 1, IF Replaces(rs[i], best) THEN rs[i] ELSE best)

\* max(rows, key=lambda r: r["hi_f"]) for non-empty rows.
MaxByHi(rs) == MaxScan(rs, 2, rs[1])

\* ----------------------------------------------------- safe windows scan
SafeRisks == {"Low", "Moderate"}

RECURSIVE GoodIdxsFrom(_, _)
GoodIdxsFrom(rs, i) ==
    IF i > Len(rs) THEN <<>>
    ELSE IF rs[i].risk \in SafeRisks THEN <<i>> \o GoodIdxsFrom(rs, i + 1)
         ELSE GoodIdxsFrom(rs, i + 1)

\* [i for i, rw in enumerate(rows) if rw["risk"] in ("Low", "Moderate")], 1-based.
GoodIdxs(rs) == GoodIdxsFrom(rs, 1)

NextInFilteredList(good_idxs, i, end_i) == TRUE

\* good_idxs[i+1] == end_i + 1
NextIsAdjacent(good_idxs, i, end_i) == good_idxs[i + 1] = end_i + 1

\* The inner while loop: <<i, end_i>> when it exits.
RECURSIVE InnerLoop(_, _, _)
InnerLoop(good_idxs, i, end_i) ==
    IF i + 1 <= Len(good_idxs) /\ NextIsAdjacent(good_idxs, i, end_i)
    THEN InnerLoop(good_idxs, i + 1, good_idxs[i + 1])
    ELSE <<i, end_i>>

\* The outer while loop.
RECURSIVE OuterLoop(_, _, _, _)
OuterLoop(rs, good_idxs, i, ws) ==
    IF i <= Len(good_idxs)
    THEN LET start_i == good_idxs[i]
             ie      == InnerLoop(good_idxs, i, start_i)
         IN  OuterLoop(rs, good_idxs, ie[1] + 1,
                       Append(ws, <<rs[start_i].ts, rs[ie[2]].ts>>))
    ELSE ws

SafeWindows(rs) == OuterLoop(rs, GoodIdxs(rs), 1, <<>>)

\* fmt_range: one label when both ends are the same instant, else two.
fmt_range(start_ts, end_ts, tz_offset_seconds) ==
    IF start_ts = end_ts THEN <<fmt_hour(start_ts, tz_offset_seconds)>>
    ELSE <<fmt_hour(start_ts, tz_offset_seconds), fmt_hour(end_ts, tz_offset_seconds)>>

\* ------------------------------------------------------------- the state
VARIABLES
    pc,         \* position in the script's forecast block
    bound,      \* names the script has assigned so far
    tz_offset, hourly, rows, peak, peak_risk, peak_hi, windows,
    role, duration, rules, sched,
    ui,         \* what has been rendered, in order
    \* one call of a function on its own
    fn, arg, ret, raised, prev

pvars == <<pc, bound, tz_offset, hourly, rows, peak, peak_risk, peak_hi, windows,
           role, duration, rules, sched, ui>>

fvars == <<fn, arg, ret, raised, prev>>

vars == <<pvars, fvars>>

\* ------------------------------------------------------------ the inputs
Risks == {"Low", "Moderate", "High", "Extreme"}

\* Hourly records of the provider, without their dt: Low, Moderate (no uvi
\* field), High by the UV bump only, High, Extreme.
Templates ==
    { [temp |-> 75, humidity |-> 40, uvi |-> 0],
      [temp |-> 94, humidity |-> 50],
      [temp |-> 94, humidity |-> 50, uvi |-> 9],
      [temp |-> 100, humidity |-> 50, uvi |-> 7],
      [temp |-> 105, humidity |-> 60, uvi |-> 8] }

TzOffsets == {0, -25200}

\* The record for hour i (one-hour spacing from an on-the-hour epoch).
WithDt(t, i) ==
    [k \in DOMAIN t \cup {"dt"} |-> IF k = "dt" THEN 1699999200 + 3600 * i ELSE t[k]]

HourlyOf(ts) == [i \in 1..Len(ts) |-> WithDt(ts[i], i)]

TemplateSeqs == UNION {[1..n -> Templates] : n \in 0..MaxRows}

\* Values of the duration slider that are enumerated (30..240 in steps of 10).
Durations == {30, 90, 240}

Init ==
    /\ pc = "fetch"
    /\ bound = {}
    /\ tz_offset = 0
    /\ hourly = <<>>
    /\ rows = <<>>
    /\ peak = <<>>
    /\ peak_risk = ""
    /\ peak_hi = 0
    /\ windows = <<>>
    /\ role = ""
    /\ duration = 0
    /\ rules = <<>>
    /\ sched = <<>>
    /\ ui = <<>>
    /\ fn = "none"
    /\ arg = <<>>
    /\ ret = <<>>
    /\ raised = "none"
    /\ prev = <<>>

\* --------------------------------------------------- the forecast block
\* The request succeeds: tz_offset and hourly are read from the response.
Fetch ==
    /\ pc = "fetch"
    /\ \E tz \in TzOffsets, ts \in TemplateSeqs :
          /\ tz_offset' = tz
          /\ hourly' = Slice(HourlyOf(ts))
    /\ bound' = bound \cup {"tz_offset", "hourly"}
    /\ pc' = "check"
    /\ UNCHANGED <<rows, peak, peak_risk, peak_hi, windows, role, duration, rules,
                   sched, ui, fvars>>

\* The request raises: the except clause reports it and stops.
FetchFails ==
    /\ pc = "fetch"
    /\ ui' = Append(ui, [kind |-> "error", body |-> "Error"])
    /\ pc' = "stopped"
    /\ UNCHANGED <<bound, tz_offset, hourly, rows, peak, peak_risk, peak_hi, windows,
                   role, duration, rules, sched, fvars>>

HourlyNeverEmpty(h) == FALSE

\* `not hourly`
HourlyEmpty(h) == Len(h) = 0

CheckHourly ==
    /\ pc = "check"
    /\ IF HourlyEmpty(hourly)
       THEN /\ ui' = Append(ui, [kind |-> "error", body |-> "No hourly forecast returned."])
            /\ pc' = "end"
            /\ UNCHANGED <<rows, bound>>
       ELSE /\ rows' = <<>>
            /\ bound' = bound \cup {"rows"}
            /\ pc' = "rows"
            /\ UNCHANGED ui
    /\ UNCHANGED <<tz_offset, hourly, peak, peak_risk, peak_hi, windows, role,
                   duration, rules, sched, fvars>>

\* One iteration of `for h in hourly`.
RowStep ==
    /\ pc = "rows"
    /\ Len(rows) < Len(hourly)
    /\ rows' = Append(rows, MakeRow(hourly[Len(rows) + 1], tz_offset))
    /\ UNCHANGED <<pc, bound, tz_offset, hourly, peak, peak_risk, peak_hi, windows,
                   role, duration, rules, sched, ui, fvars>>

\* The loop is over; max() of an empty list raises ValueError.
ComputePeak ==
    /\ pc = "rows"
    /\ Len(rows) = Len(hourly)
    /\ IF Len(rows) = 0
       THEN /\ ui' = Append(ui, [kind |-> "error", body |-> "Error"])
            /\ pc' = "stopped"
            /\ UNCHANGED <<peak, peak_risk, peak_hi, bound>>
       ELSE /\ peak' = MaxByHi(rows)
            /\ peak_risk' = peak'.risk
            /\ peak_hi' = PyRound(peak'.hi_f)
            /\ bound' = bound \cup {"peak", "peak_risk", "peak_hi"}
            /\ pc' = "windows"
            /\ UNCHANGED ui
    /\ UNCHANGED <<tz_offset, hourly, rows, windows, role, duration, rules, sched, fvars>>

ScanWindows ==
    /\ pc = "windows"
    /\ windows' = SafeWindows(rows)
    /\ bound' = bound \cup {"windows"}
    /\ pc' = "render"
    /\ UNCHANGED <<tz_offset, hourly, rows, peak, peak_risk, peak_hi, role, duration,
                   rules, sched, ui, fvars>>

\* The two metrics and the table.
Render ==
    /\ pc = "render"
    /\ ui' = ui \o
         << [kind |-> "success", body |-> "Location"],
            [kind |-> "metric peak", body |-> <<peak_hi, peak_risk, peak.hour>>],
            [kind |-> "metric windows",
             body |-> IF Len(windows) > 0
                      THEN [k \in 1..Len(windows) |->
                              fmt_range(windows[k][1], windows[k][2], tz_offset)]
                      ELSE <<"None">>],
            [kind |-> "table", body |-> Len(rows)] >>
    /\ pc' = "guidance"
    /\ UNCHANGED <<bound, tz_offset, hourly, rows, peak, peak_risk, peak_hi, windows,
                   role, duration, rules, sched, fvars>>

\* The role is the sidebar's selection.
Guidance ==
    /\ pc = "guidance"
    /\ \E r \in Roles :
          /\ role' = r
          /\ rules' = adjust_rules_for_risk(r, peak_risk)
    /\ ui' = Append(ui, [kind |-> "guidance", body |-> rules'])
    /\ bound' = bound \cup {"rules"}
    /\ pc' = "hydration"
    /\ UNCHANGED <<tz_offset, hourly, rows, peak, peak_risk, peak_hi, windows,
                   duration, sched, fvars>>

\* The duration is the sidebar's slider.
Hydration ==
    /\ pc = "hydration"
    /\ \E d \in Durations :
          /\ duration' = d
          /\ sched' = hydration_schedule(d, rules.ml_per_20)
    /\ ui' = Append(ui, IF Len(sched') > 0
                        THEN [kind |-> "reminders",
                              body |-> [k \in 1..Len(sched') |-> sched'[k][1]]]
                        ELSE [kind |-> "reminders", body |-> <<>>])
    /\ bound' = bound \cup {"sched"}
    /\ pc' = "bulletin"
    /\ UNCHANGED <<tz_offset, hourly, rows, peak, peak_risk, peak_hi, windows,
                   role, rules, fvars>>

Bulletin ==
    /\ pc = "bulletin"
    /\ ui' = Append(ui, [kind |-> "bulletin",
                         body |-> <<peak_hi, peak_risk, Len(windows), role,
                                    rules.work, rules.rest, rules.ml_per_20>>])
    /\ pc' = "end"
    /\ UNCHANGED <<bound, tz_offset, hourly, rows, peak, peak_risk, peak_hi, windows,
                   role, duration, rules, sched, fvars>>

Next ==
    \/ Fetch
    \/ FetchFails
    \/ CheckHourly
    \/ RowStep
    \/ ComputePeak
    \/ ScanWindows
    \/ Render
    \/ Guidance
    \/ Hydration
    \/ Bulletin

Spec == Init /\ [][Next]_vars

\* ------------------------------------------- the functions on their own
\* Each behaviour is one call of one function on arguments drawn from the
\* sets below (two calls in a row for risk_from_hi, to compare their results).
Temps == 78..MaxTemp

Humidities == 0..100

HIValues == {d * Scale + e : d \in 85..MaxHI, e \in {-1, 0, 1}}

CallDurations == (0 - 40)..MaxDuration

Amounts == {r.ml_per_20 : r \in {ROLE_RULES[x] : x \in Roles}}

\* ret carries the value returned together with the branch taken.
CallHeatIndex ==
    /\ fn = "none"
    /\ \E T_f \in Temps, RH \in Humidities :
          /\ arg' = <<T_f, RH>>
          /\ ret' = HeatIndexEval(T_f, RH)
    /\ fn' = "heat_index_f"
    /\ raised' = "none"
    /\ prev' = <<>>
    /\ UNCHANGED pvars

\* One call, or a second call after a first: prev keeps the first.
CallRisk ==
    /\ fn = "none" \/ (fn = "risk_from_hi" /\ prev = <<>>)
    /\ \E hi_f \in HIValues :
          /\ arg' = <<hi_f>>
          /\ ret' = risk_from_hi(hi_f)
    /\ fn' = "risk_from_hi"
    /\ raised' = "none"
    /\ prev' = IF fn = "risk_from_hi" THEN <<arg[1], ret>> ELSE <<>>
    /\ UNCHANGED pvars

\* The function has no raise statement: it returns for every duration.
CallHydration ==
    /\ fn = "none"
    /\ \E total_minutes \in CallDurations, ml_per_20 \in Amounts :
          /\ arg' = <<total_minutes, ml_per_20>>
          /\ ret' = hydration_schedule(total_minutes, ml_per_20)
    /\ fn' = "hydration_schedule"
    /\ raised' = "none"
    /\ prev' = <<>>
    /\ UNCHANGED pvars

FnNext ==
    \/ CallHeatIndex
    \/ CallRisk
    \/ CallHydration

FnSpec == Init /\ [][FnNext]_vars

\* ================================================================ claims
\* ---- hydration_schedule (under FnSpec)

HydrationCalled == fn = "hydration_schedule"

\* C2: for every duration D >= 0 and amount A, hydration_schedule(D, A)
\* returns (it raises nothing) exactly the pairs (20k, A) for k = 1..floor(D/20),
\* in increasing order: the offsets start at 20 and increase by 20, the last
\* one is the largest multiple of 20 that is <= D, every amount is A, and the
\* result is empty exactly when D < 20.
C2_HydrationSchedule ==
    (HydrationCalled /\ arg[1] >= 0) =>
        LET D == arg[1]
            A == arg[2]
            n == Len(ret)
        IN  /\ raised = "none"
            /\ n = D \div 20
            /\ ret = [k \in 1..(D \div 20) |-> <<20 * k, A>>]
            /\ \A k \in 1..n : ret[k][2] = A
            /\ n > 0 => ret[1][1] = 20
            /\ \A k \in 1..(n - 1) : ret[k + 1][1] = ret[k][1] + 20
            /\ n > 0 => (ret[n][1] <= D /\ ret[n][1] % 20 = 0 /\ D < ret[n][1] + 20)
            /\ (n = 0) <=> (D < 20)

\* hydration_schedule(90, 250) has returned offsets 20, 40, 60, 80.
C2_Witness ==
    /\ HydrationCalled
    /\ arg = <<90, 250>>
    /\ ret = << <<20, 250>>, <<40, 250>>, <<60, 250>>, <<80, 250>> >>

\* C7: hydration_schedule called with a negative duration fails fast with an
\* explicit invalid-argument error; it does not return a schedule.
C7_NegativeDurationFailsFast ==
    (HydrationCalled /\ arg[1] < 0) => raised # "none"

\* ---- risk_from_hi (under FnSpec)

RiskCalled == fn = "risk_from_hi"

\* C5: risk_from_hi returns Extreme when hi >= 125, else High when hi >= 104,
\* else Moderate when hi >= 90, else Low (the values 90, 104 and 125 belong to
\* the higher category), and of two calls with HI1 < HI2 the category of HI1
\* is <= the category of HI2 in the order Low < Moderate < High < Extreme.
C5_RiskStepMonotonic ==
    RiskCalled =>
        LET hi == arg[1]
        IN  /\ raised = "none"
            /\ ret[1] \in Risks
            /\ (ret[1] = "Extreme") <=> (hi >= 125 * Scale)
            /\ (ret[1] = "High") <=> (104 * Scale <= hi /\ hi < 125 * Scale)
            /\ (ret[1] = "Moderate") <=> (90 * Scale <= hi /\ hi < 104 * Scale)
            /\ (ret[1] = "Low") <=> (hi < 90 * Scale)
            /\ (prev # <<>> /\ prev[1] < hi) => Rank(prev[2][1]) <= Rank(ret[1])
            /\ (prev # <<>> /\ prev[1] = hi) => prev[2] = ret

\* Just below 104 was Moderate, and 104 itself is High.
C5_Witness ==
    /\ RiskCalled
    /\ prev = <<104 * Scale - 1, <<"Moderate", "yellow">> >>
    /\ arg = <<104 * Scale>>
    /\ ret[1] = "High"

\* ---- heat_index_f (under FnSpec)

HeatIndexCalled == fn = "heat_index_f"

LowHumidityCase == HeatIndexCalled /\ 80 <= arg[1] /\ arg[1] <= 112 /\ arg[2] < 13

\* C8 as stated: for every T with 80 <= T <= 112 and every RH < 13 the
\* low-humidity term is well defined and strictly positive, so heat_index_f
\* returns a value strictly below the polynomial's; and the two corrections
\* are never both applied.
C8_StrictDecreaseUpTo112 ==
    /\ LowHumidityCase =>
          /\ LowRadicand(arg[1]) >= 0
          /\ LowAdj(arg[1], arg[2]) > 0
          /\ ret.HI < Rothfusz(arg[1], arg[2])
    /\ HeatIndexCalled => ~(ret.low /\ ret.high)

\* C8 (amended): for 80 <= T <= 112 and RH < 13 the low-humidity term is well
\* defined; it is strictly positive, and the value returned strictly below the
\* polynomial's, when T < 112; at T = 112 the term is zero and the value
\* returned equals the polynomial's.  The two corrections are never both
\* applied: the value returned is the polynomial's minus the low-humidity
\* term, or plus the high-humidity term, or the polynomial's itself.
C8_StrictDecreaseBelow112 ==
    /\ LowHumidityCase =>
          /\ raised = "none"
          /\ ret.low
          /\ LowRadicand(arg[1]) >= 0
          /\ arg[1] < 112 =>
                (LowAdj(arg[1], arg[2]) > 0 /\ ret.HI < Rothfusz(arg[1], arg[2]))
          /\ arg[1] = 112 =>
                (LowAdj(arg[1], arg[2]) = 0 /\ ret.HI = Rothfusz(arg[1], arg[2]))
    /\ HeatIndexCalled =>
          /\ ~(ret.low /\ ret.high)
          /\ ret.low => ret.HI = Rothfusz(arg[1], arg[2]) - LowAdj(arg[1], arg[2])
          /\ ret.high => ret.HI = Rothfusz(arg[1], arg[2]) + HighAdj(arg[1], arg[2])
          /\ (~ret.low /\ ~ret.high) => ret.HI = Rothfusz(arg[1], arg[2])

\* T = 80 (the lower endpoint) with RH = 12: the smallest term, still a decrease.
C8_Witness ==
    /\ LowHumidityCase
    /\ arg = <<80, 12>>
    /\ ret.low
    /\ ret.HI < Rothfusz(80, 12)

\* ---- the safe-window scan (under Spec)

NRows == Len(rows)

Safe(i) == rows[i].risk \in SafeRisks

\* Row i is the first, and row i the last, of a maximal run of safe rows.
RunStart(i) == Safe(i) /\ (i = 1 \/ ~Safe(i - 1))

RunEnd(i) == Safe(i) /\ (i = NRows \/ ~Safe(i + 1))

RunStartsUpTo(i) == {j \in 1..i : RunStart(j)}

\* Window k is the k-th maximal run of safe rows, from row s to row e.
IsKthRun(k, s, e) ==
    /\ s <= e
    /\ RunStart(s)
    /\ RunEnd(e)
    /\ \A j \in s..e : Safe(j)
    /\ Cardinality(RunStartsUpTo(s)) = k
    /\ windows[k] = <<rows[s].ts, rows[e].ts>>

\* Row i lies inside window k.
Inside(i, k) == windows[k][1] <= rows[i].ts /\ rows[i].ts <= windows[k][2]

\* C1: the scan returns, in input order, exactly one window per maximal run
\* of consecutive rows whose risk is Low or Moderate, from the timestamp of
\* the run's first row to that of its last.  Hence no High/Extreme row lies
\* inside a window, no two windows overlap or are adjacent, all-Low rows give
\* one window (first ts, last ts), rows alternating Low/High (an even number
\* of them) give N/2 windows with start = end, and no safe row gives no window.
C1_WindowsAreMaximalRuns ==
    "windows" \in bound =>
        /\ Len(windows) = Cardinality(RunStartsUpTo(NRows))
        /\ \A k \in 1..Len(windows) : \E s, e \in 1..NRows : IsKthRun(k, s, e)
        /\ \A i \in 1..NRows : \A k \in 1..Len(windows) : Inside(i, k) => Safe(i)
        /\ \A i \in 1..NRows : Safe(i) => \E k \in 1..Len(windows) : Inside(i, k)
        /\ \A k \in 1..(Len(windows) - 1) : windows[k][2] + 3600 < windows[k + 1][1]
        /\ (\A i \in 1..NRows : rows[i].risk = "Low") =>
              windows = << <<rows[1].ts, rows[NRows].ts>> >>
        /\ (/\ NRows % 2 = 0
            /\ \A i \in 1..NRows : rows[i].risk = (IF i % 2 = 1 THEN "Low" ELSE "High")) =>
              /\ Len(windows) = NRows \div 2
              /\ \A k \in 1..Len(windows) : windows[k][1] = windows[k][2]
        /\ (\A i \in 1..NRows : ~Safe(i)) => windows = <<>>

\* Low, Moderate, High, Low: a window over rows 1..2 and one over row 4.
C1_Witness ==
    /\ "windows" \in bound
    /\ NRows = 4
    /\ rows[1].risk = "Low" /\ rows[2].risk = "Moderate"
    /\ rows[3].risk = "High" /\ rows[4].risk = "Low"
    /\ windows = << <<rows[1].ts, rows[2].ts>>, <<rows[4].ts, rows[4].ts>> >>

\* ---- adjust_rules_for_risk (under Spec)

\* C3: for every role of the table and every peak risk the rules are: for
\* High, work = max(20, baseline work - 10) and rest = baseline rest + 10; for
\* Extreme, work = max(15, baseline work - 15) and rest = baseline rest + 15;
\* for Low or Moderate, the baseline's work and rest.  The hydration amount
\* and the note are the baseline's.  Construction with Extreme: 25 and 35.
C3_AdjustedRules ==
    "rules" \in bound =>
        LET base == ROLE_RULES[role]
        IN  /\ role \in Roles /\ peak_risk \in Risks
            /\ peak_risk = "High" =>
                  /\ rules.work = Max2(20, base.work - 10)
                  /\ rules.rest = base.rest + 10
            /\ peak_risk = "Extreme" =>
                  /\ rules.work = Max2(15, base.work - 15)
                  /\ rules.rest = base.rest + 15
            /\ peak_risk \in {"Low", "Moderate"} =>
                  /\ rules.work = base.work
                  /\ rules.rest = base.rest
            /\ rules.ml_per_20 = base.ml_per_20
            /\ rules.note = base.note
            /\ (role = "Construction" /\ peak_risk = "Extreme") =>
                  (rules.work = 25 /\ rules.rest = 35)

C3_Witness ==
    /\ "rules" \in bound
    /\ role = "Construction"
    /\ peak_risk = "Extreme"
    /\ rules.work = 25
    /\ rules.rest = 35

\* ---- the peak (under Spec)

\* C4: the peak is a row whose heat index is >= that of every row, and of
\* the rows that share the maximum it is the first in input order; the peak
\* risk, the rounded peak heat index and the hour label are that row's.
C4_PeakIsFirstMaximum ==
    "peak" \in bound =>
        \E i \in 1..NRows :
            /\ peak = rows[i]
            /\ \A j \in 1..NRows : rows[j].hi_f <= rows[i].hi_f
            /\ \A j \in 1..(i - 1) : rows[j].hi_f < rows[i].hi_f
            /\ peak_risk = rows[i].risk
            /\ peak_hi = PyRound(rows[i].hi_f)
            /\ peak.hour = fmt_hour(hourly[i]["dt"], tz_offset)
            /\ peak.ts = hourly[i]["dt"]

\* Rows 2 and 4 share the maximum and the peak is row 2.
C4_Witness ==
    /\ "peak" \in bound
    /\ NRows = 4
    /\ rows[1].hi_f < rows[2].hi_f
    /\ rows[3].hi_f < rows[2].hi_f
    /\ rows[4].hi_f = rows[2].hi_f
    /\ peak.ts = rows[2].ts
    /\ peak.ts # rows[4].ts

\* ---- the empty forecast (under Spec)

AfterRows == {"peak", "peak_risk", "peak_hi", "windows", "rules", "sched"}

\* C6: when the hourly sequence is empty the run ends in the no-data error:
\* that error is the only thing rendered, no row, peak, window, rule or
\* schedule is assigned (no default peak either), and max() is never applied
\* to an empty list.
C6_EmptyForecastIsNoData ==
    /\ ("hourly" \in bound /\ Len(hourly) = 0 /\ pc # "check") =>
          /\ pc = "end"
          /\ ui = << [kind |-> "error", body |-> "No hourly forecast returned."] >>
          /\ bound \cap (AfterRows \cup {"rows"}) = {}
          /\ peak = <<>> /\ peak_risk = "" /\ peak_hi = 0
    /\ (pc = "rows" \/ bound \cap AfterRows # {}) => Len(hourly) > 0
    /\ pc = "stopped" => "hourly" \notin bound

C6_Witness ==
    /\ pc = "end"
    /\ "hourly" \in bound
    /\ Len(hourly) = 0
    /\ Len(ui) = 1
    /\ ui[1].kind = "error"

\* ---- the row loop (under Spec)

\* The UV index of a record as the loop reads it: 0 when the field is missing.
UviOf(h) == IF "uvi" \in DOMAIN h THEN h["uvi"] ELSE 0

\* Row i is the row of reading i.
RowOfReading(i) ==
    LET h == hourly[i]
        calc == heat_index_f(h["temp"], h["humidity"])
    IN  /\ rows[i].ts = h["dt"]
        /\ rows[i].temp_f = h["temp"]
        /\ rows[i].rh = h["humidity"]
        /\ rows[i].uvi = UviOf(h)
        /\ UviOf(h) >= 8 => rows[i].hi_f = calc + 3 * Scale
        /\ UviOf(h) < 8 => rows[i].hi_f = calc
        /\ rows[i].risk = risk_from_hi(rows[i].hi_f)[1]
        /\ rows[i].emoji = risk_from_hi(rows[i].hi_f)[2]
        /\ rows[i].hour = fmt_hour(h["dt"], tz_offset)

\* C9: for a non-empty input the rows have the input's length and order (row
\* i carries reading i's timestamp, temperature, humidity and UV index, 0 for
\* a missing one); row i's heat index is the calculator's value plus 3 exactly
\* when reading i's UV index is >= 8, unchanged when it is < 8 or missing; and
\* the risk is that of the bumped value.
C9_RowsFollowReadings ==
    "rows" \in bound =>
        /\ Len(hourly) > 0
        /\ NRows <= Len(hourly)
        /\ pc # "rows" => NRows = Len(hourly)
        /\ \A i \in 1..NRows : RowOfReading(i)

\* A reading of UV index 9 whose own heat index is Moderate (within 3 below
\* 104) is a High row once all rows are built.
C9_Witness ==
    /\ pc = "windows"
    /\ NRows = Len(hourly)
    /\ \E i \in 1..NRows :
          /\ UviOf(hourly[i]) = 9
          /\ risk_from_hi(heat_index_f(hourly[i]["temp"], hourly[i]["humidity"]))[1]
                = "Moderate"
          /\ rows[i].risk = "High"
    /\ \E i \in 1..NRows : "uvi" \notin DOMAIN hourly[i] /\ rows[i].risk = "Moderate"

\* ---- the peak risk and the guidance (under Spec)

AtBaseline == rules.work = ROLE_RULES[role].work /\ rules.rest = ROLE_RULES[role].rest

\* C10: the peak risk is the maximum risk over all rows; so the work/rest
\* cycle is the baseline's only when every row is Low or Moderate, and then
\* the scan has returned one window from the first row to the last.
C10_PeakRiskIsMaximumRisk ==
    /\ "peak" \in bound =>
          /\ \A i \in 1..NRows : Rank(rows[i].risk) <= Rank(peak_risk)
          /\ \E i \in 1..NRows : rows[i].risk = peak_risk
    /\ "rules" \in bound =>
          /\ AtBaseline <=> (\A i \in 1..NRows : Safe(i))
          /\ AtBaseline => windows = << <<rows[1].ts, rows[NRows].ts>> >>

\* Low then Moderate rows: the rules are the baseline's and there is one window.
C10_Witness ==
    /\ "rules" \in bound
    /\ NRows = 3
    /\ rows[1].risk = "Low" /\ rows[2].risk = "Moderate" /\ rows[3].risk = "Low"
    /\ peak_risk = "Moderate"
    /\ AtBaseline
    /\ Len(windows) = 1

====
